---- MODULE Spec2Model ----
(***************************************************************************)
(* learn_algo: learn::BloomFilter and learn::ReservoirSampling.            *)
(*                                                                         *)
(* Two independent components.  SpecBloom drives two BloomFilter<int>      *)
(* objects through record / contains / filterUnion / filterIntersection.   *)
(* SpecSampler drives one ReservoirSampling<int> through process.          *)
(* SpecDist carries the whole outcome distribution of the sampler, one     *)
(* weight per reservoir content, through the same process step.            *)
(***************************************************************************)
EXTENDS Integers, Sequences, FiniteSets, TLC

(***************************************************************************)
(* Bounds of the model.                                                    *)
(***************************************************************************)
MaxBuckets == 3
MaxHashes == 2
NumValues == 3
MaxCapacity == 3
MaxProcessed == 5
MaxStreamValue == 1
NumElements == 4
MaxDistCapacity == 2
MaxElements == 3
MaxRateExp == 29
MaxStart == 6
MaxLongCalls == 4
LongCapacity == 1

(***************************************************************************)
(* Index = std::size_t.  A 64-bit unsigned word is kept as four 16-bit     *)
(* limbs, least significant first, so that the wrap-around of << and of    *)
(* hash_a + n * hash_b is the one the code has.                            *)
(***************************************************************************)
SizeofIndex == 8
LimbBase == 2 ^ 16

\* static_cast<std::size_t>(v) of an int v (two's complement, sign extended).
IndexOfInt(v) ==
    LET ext == IF v < 0 THEN LimbBase - 1 ELSE 0
    IN  << v % LimbBase, (v \div LimbBase) % LimbBase, ext, ext >>

\* x << s on Index, 0 <= s < 16: bits shifted out at the top are lost.
ShiftLeft(x, s) ==
    LET up == 2 ^ s
        down == LimbBase \div up
    IN  << (x[1] * up) % LimbBase,
           ((x[2] * up) % LimbBase) + (x[1] \div down),
           ((x[3] * up) % LimbBase) + (x[2] \div down),
           ((x[4] * up) % LimbBase) + (x[3] \div down) >>

\* x >> s on Index, 0 <= s < 16: zeros come in at the top.
ShiftRight(x, s) ==
    LET down == 2 ^ s
        up == LimbBase \div down
    IN  << (x[1] \div down) + ((x[2] % down) * up),
           (x[2] \div down) + ((x[3] % down) * up),
           (x[3] \div down) + ((x[4] % down) * up),
           x[4] \div down >>

\* x + y on Index (mod 2^64): limb by limb with carry.
IndexAdd(x, y) ==
    LET s1 == x[1] + y[1]
        s2 == x[2] + y[2] + (s1 \div LimbBase)
        s3 == x[3] + y[3] + (s2 \div LimbBase)
        s4 == x[4] + y[4] + (s3 \div LimbBase)
    IN  << s1 % LimbBase, s2 % LimbBase, s3 % LimbBase, s4 % LimbBase >>

\* n * x on Index (mod 2^64), n a loop counter below 2^15.
IndexMul(n, x) ==
    LET p1 == n * x[1]
        p2 == n * x[2] + (p1 \div LimbBase)
        p3 == n * x[3] + (p2 \div LimbBase)
        p4 == n * x[4] + (p3 \div LimbBase)
    IN  << p1 % LimbBase, p2 % LimbBase, p3 % LimbBase, p4 % LimbBase >>

\* x % m on Index, for 1 <= m <= 2^15: from the most significant limb down.
IndexMod(x, m) ==
    LET r4 == x[4] % m
        r3 == (r4 * LimbBase + x[3]) % m
        r2 == (r3 * LimbBase + x[2]) % m
    IN  (r2 * LimbBase + x[1]) % m

(***************************************************************************)
(* BloomFilter<int>.  A filter is the pair of its members num_hashes_ and  *)
(* buckets_; bucket i of the std::vector<bool> is buckets_[i + 1].         *)
(***************************************************************************)

\* The values that are recorded and queried: ints, as in the tests.
ValuePool == << 230, -1, 0, 233, 54, 1, 383, 2 >>
Values == { ValuePool[i] : i \in 1..NumValues }

\* HashT = std::hash<int>: the int converted to std::size_t.
Hash(value) == IndexOfInt(value)

\* BloomFilter::BloomFilter(num_buckets, num_hashes)
BloomFilter(num_buckets, num_hashes) ==
    [ num_hashes_ |-> num_hashes,
      buckets_    |-> [i \in 1..num_buckets |-> FALSE] ]

numBuckets(filter) == Len(filter.buckets_)
numHashes(filter) == filter.num_hashes_
numBucketsPopulated(filter) ==
    Cardinality({ i \in 1..Len(filter.buckets_) : filter.buckets_[i] })

\* shift_by = sizeof(Index) / 2: a count of bytes, used as a count of bits.
shift_by == SizeofIndex \div 2

\* BloomFilter::hash: the tuple (hash_a, hash_b).
hash(value) ==
    [ hash_a |-> ShiftLeft(Hash(value), shift_by),
      hash_b |-> ShiftRight(Hash(value), shift_by) ]

\* (hash_a + n * hash_b) % buckets_.size(), for size >= 1.
nth_hash(h, n, size) ==
    IndexMod(IndexAdd(h.hash_a, IndexMul(n, h.hash_b)), size)

\* The remainder by buckets_.size() is undefined for an empty bucket vector;
\* the loop body runs only when num_hashes_ >= 1.
ProbesDefined(filter) ==
    numBuckets(filter) >= 1 \/ numHashes(filter) = 0

RECURSIVE RecordLoop(_, _, _, _)
RecordLoop(buckets, h, n, num_hashes) ==
    IF n < num_hashes
    THEN RecordLoop([buckets EXCEPT ![nth_hash(h, n, Len(buckets)) + 1] = TRUE],
                    h, n + 1, num_hashes)
    ELSE buckets

\* record with the loop started at n = 1: the probe at hash_a is never set.
record_from_one(filter, value) ==
    [ filter EXCEPT !.buckets_ =
        RecordLoop(filter.buckets_, hash(value), 1, filter.num_hashes_) ]

\* record that assigns the probed buckets to a cleared vector.
record_cleared(filter, value) ==
    [ filter EXCEPT !.buckets_ =
        RecordLoop([ i \in 1..Len(filter.buckets_) |-> FALSE ],
                   hash(value), 0, filter.num_hashes_) ]

\* BloomFilter::record, on a filter with ProbesDefined.
record(filter, value) ==
    [ filter EXCEPT !.buckets_ =
        RecordLoop(filter.buckets_, hash(value), 0, filter.num_hashes_) ]

RECURSIVE ContainsLoop(_, _, _, _)
ContainsLoop(buckets, h, n, num_hashes) ==
    IF n < num_hashes
    THEN IF ~buckets[nth_hash(h, n, Len(buckets)) + 1]
         THEN FALSE
         ELSE ContainsLoop(buckets, h, n + 1, num_hashes)
    ELSE TRUE

\* BloomFilter::contains, on a filter with ProbesDefined.
contains(filter, value) ==
    ContainsLoop(filter.buckets_, hash(value), 0, filter.num_hashes_)

(***************************************************************************)
(* BloomFilter::make.  A false_positive_error is the double nearest to the *)
(* rational << p, q >> = p / q, with 0 < p / q < 2: below 0 and from 2 on  *)
(* the conversion Index(std::ceil(...)) of a negative or infinite double   *)
(* is undefined, and those rates are not among the inputs.                 *)
(***************************************************************************)
CeilDiv(a, b) == (a + b - 1) \div b

\* The smallest k >= 0 with 2^k * p >= q: ceil(log2(q / p)) for 0 < p <= q.
RECURSIVE CeilLog2(_, _)
CeilLog2(p, q) == IF p >= q THEN 0 ELSE 1 + CeilLog2(p, CeilDiv(q, 2))

RECURSIVE IsPowerOfTwo(_)
IsPowerOfTwo(n) == n = 1 \/ (n > 1 /\ n % 2 = 0 /\ IsPowerOfTwo(n \div 2))

\* The exponents k for which the double std::log(2^k) / std::log(2) is
\* above k: the quotient of the two rounded logarithms is one ulp too large.
InexactLogQuotients == { 29, 31, 39, 47, 51, 55, 58, 59, 62 }

\* num_hashes = Index(std::ceil(std::log(1.0 / false_positive_error) / std::log(2))).
\* The quotient is off the exact log2 by rounding only, which moves the
\* ceiling only where log2 is an integer: at 1 / rate = 2^k.
num_hashes(rate) ==
    LET p == rate[1]
        q == rate[2]
        k == CeilLog2(p, q)
    IN  IF p >= q THEN 0
        ELSE IF q % p = 0 /\ IsPowerOfTwo(q \div p) /\ k \in InexactLogQuotients
             THEN k + 1
             ELSE k

\* 1 / std::log(2) = 1.44269504088896...: it lies between
\* 1 + InvLn2Below / 10^12 and 1 + InvLn2Above / 10^12, the twelve digits
\* written in groups of four.  The doubles of the code are off the real
\* quotient and product by less than one part in 10^15, well inside.
InvLn2Below == << 4426, 9504, 880 >>
InvLn2Above == << 4426, 9504, 890 >>
DigitGroup == 10 ^ 4

\* floor(product * (1 + digits / 10^12)), for product <= 214000.
FloorTimes(product, digits) ==
    LET t3 == product * digits[3]
        t2 == product * digits[2] + t3 \div DigitGroup
        t1 == product * digits[1] + t2 \div DigitGroup
    IN  product + t1 \div DigitGroup

\* The two bounds of 1 / std::log(2) give the same floor: no integer lies
\* between them, so none lies between the real product and its double.
Ln2Decides(max_num, hashes) ==
    FloorTimes(max_num * hashes, InvLn2Below) = FloorTimes(max_num * hashes, InvLn2Above)

\* std::ceil(product / std::log(2)): 0 for 0, and one above the floor for
\* the others, which are no integers.
CeilOverLn2(product) ==
    IF product = 0 THEN 0 ELSE FloorTimes(product, InvLn2Below) + 1

\* num_buckets = Index(std::ceil(max_num * (num_hashes / std::log(2)))), for
\* max_num * num_hashes <= 214000 with Ln2Decides.
num_buckets(max_num, hashes) == CeilOverLn2(max_num * hashes)

\* BloomFilter::make(max_num, false_positive_error)
make(max_num, rate) ==
    BloomFilter(num_buckets(max_num, num_hashes(rate)), num_hashes(rate))

\* operator== that compares the buckets only.
operator_eq_buckets(this, other) == this.buckets_ = other.buckets_

\* BloomFilter::operator==
operator_eq(this, other) ==
    this.num_hashes_ = other.num_hashes_ /\ this.buckets_ = other.buckets_

\* The outcome of a call: a returned filter, or a thrown std::runtime_error.
Returned(filter) == [ threw |-> FALSE, what |-> "", result |-> filter ]
Thrown(what) == [ threw |-> TRUE, what |-> what, result |-> BloomFilter(0, 0) ]

\* A lambda that hands back its first argument.
LogicalOr_lhs(lhs, rhs) == lhs

\* The lambdas handed to std::transform.
LogicalOr(lhs, rhs) == lhs \/ rhs
LogicalAnd(lhs, rhs) == lhs /\ rhs

\* The bucket-wise combination without the check of the bucket counts: the
\* result is cut to the shorter input.
CombineUnchecked(lhs, rhs, with_or) ==
    IF numHashes(lhs) # numHashes(rhs)
    THEN Thrown("error! number of hashes dont match for union")
    ELSE LET size == IF numBuckets(lhs) < numBuckets(rhs)
                     THEN numBuckets(lhs) ELSE numBuckets(rhs)
         IN  Returned([ num_hashes_ |-> numHashes(lhs),
                        buckets_ |-> [ i \in 1..size |->
                            IF with_or
                            THEN LogicalOr(lhs.buckets_[i], rhs.buckets_[i])
                            ELSE LogicalAnd(lhs.buckets_[i], rhs.buckets_[i]) ] ])

\* The checked combination with one lambda or the other.
CombineChecked(lhs, rhs, with_or) ==
    IF numHashes(lhs) # numHashes(rhs) \/ numBuckets(lhs) # numBuckets(rhs)
    THEN Thrown("error! number of hashes dont match for union")
    ELSE CombineUnchecked(lhs, rhs, with_or)

\* filterUnion without the check of the bucket counts.
filterUnion_unchecked(lhs, rhs) == CombineUnchecked(lhs, rhs, TRUE)

\* filterUnion with the lambda of filterIntersection.
filterUnion_and(lhs, rhs) == CombineChecked(lhs, rhs, FALSE)

\* filterIntersection with the lambda of filterUnion.
filterIntersection_or(lhs, rhs) == CombineChecked(lhs, rhs, TRUE)

\* filterIntersection that returns the freshly constructed result untouched.
filterIntersection_fresh(lhs, rhs) ==
    IF numHashes(lhs) # numHashes(rhs) \/ numBuckets(lhs) # numBuckets(rhs)
    THEN Thrown("error! number of hashes dont match for union")
    ELSE Returned(BloomFilter(numBuckets(lhs), numHashes(lhs)))

\* BloomFilter::filterUnion: std::transform writes lhs || rhs from the first
\* bucket of result on, one bucket per bucket of lhs.
filterUnion(lhs, rhs) ==
    IF numHashes(lhs) # numHashes(rhs)
    THEN Thrown("error! number of hashes dont match for union")
    ELSE IF numBuckets(lhs) # numBuckets(rhs)
    THEN Thrown("error! number of buckets dont match for union")
    ELSE LET result == BloomFilter(numBuckets(lhs), numHashes(lhs))
         IN  Returned([ result EXCEPT !.buckets_ =
                 [ i \in 1..Len(lhs.buckets_) |->
                     LogicalOr(lhs.buckets_[i], rhs.buckets_[i]) ] ])

\* BloomFilter::filterIntersection: as filterUnion, with lhs && rhs.
filterIntersection(lhs, rhs) ==
    IF numHashes(lhs) # numHashes(rhs)
    THEN Thrown("error! number of hashes dont match for union")
    ELSE IF numBuckets(lhs) # numBuckets(rhs)
    THEN Thrown("error! number of buckets dont match for union")
    ELSE LET result == BloomFilter(numBuckets(lhs), numHashes(lhs))
         IN  Returned([ result EXCEPT !.buckets_ =
                 [ i \in 1..Len(lhs.buckets_) |->
                     LogicalAnd(lhs.buckets_[i], rhs.buckets_[i]) ] ])

(***************************************************************************)
(* ReservoirSampling<int>.  A sampler is the triple of its members         *)
(* num_to_sample_, num_processed_ and samples_ (slot i is samples_[i+1]);  *)
(* rand_gen_ is the source of the draws, which the model enumerates.       *)
(***************************************************************************)

\* ReservoirSampling::ReservoirSampling(num_to_sample, rand_gen)
ReservoirSampling(num_to_sample) ==
    [ num_to_sample_ |-> num_to_sample,
      num_processed_ |-> 0,
      samples_       |-> << >> ]

numToSample(s) == s.num_to_sample_
numProcessed(s) == s.num_processed_
samples(s) == s.samples_

\* std::uniform_int_distribution<> is a distribution of int: its bound
\* numProcessed() is converted from Index to int.
IntMax == 2147483647
ToInt(index) ==
    IF index <= IntMax THEN index ELSE index - IntMax - IntMax - 2

\* The draw taken from [0, numProcessed() + 1]: the count after the increment.
Draws_after_increment(s) == 0..(ToInt(numProcessed(s)) + 1)

\* The outcomes of std::uniform_int_distribution<>(0, numProcessed())(rand_gen_),
\* each equally likely.
Draws(s) == 0..ToInt(numProcessed(s))

\* process with one branch of the code changed:
\*   "append"   an accepted value is always emplaced at the back;
\*   "early"    the overwrite branch is taken from numProcessed() + 1 >= numToSample();
\*   "accepted" num_processed_ is incremented only for an accepted value.
process_changed(s, value, random_index, change) ==
    LET sample_value == random_index < numToSample(s)
        counted(t) == [ t EXCEPT !.num_processed_ = @ + 1 ]
        full == IF change = "early"
                THEN numProcessed(s) + 1 >= numToSample(s)
                ELSE numProcessed(s) >= numToSample(s)
    IN  IF sample_value
        THEN IF full /\ change # "append"
             THEN IF random_index < Len(s.samples_)
                  THEN [ threw   |-> FALSE,
                         ret     |-> sample_value,
                         sampler |-> counted([ s EXCEPT !.samples_[random_index + 1] = value ]) ]
                  ELSE [ threw |-> TRUE, ret |-> FALSE, sampler |-> s ]
             ELSE [ threw   |-> FALSE,
                    ret     |-> sample_value,
                    sampler |-> counted([ s EXCEPT !.samples_ = Append(@, value) ]) ]
        ELSE [ threw |-> FALSE, ret |-> sample_value,
               sampler |-> IF change = "accepted" THEN s ELSE counted(s) ]

process_append(s, value, random_index) == process_changed(s, value, random_index, "append")
process_early(s, value, random_index) == process_changed(s, value, random_index, "early")
process_accepted(s, value, random_index) == process_changed(s, value, random_index, "accepted")

\* process without the else: on a full reservoir an accepted value is
\* written to its slot and emplaced at the back as well.
process_no_else(s, value, random_index) ==
    LET r == process_changed(s, value, random_index, "none")
    IN  IF r.ret /\ numProcessed(s) >= numToSample(s)
        THEN [ r EXCEPT !.sampler.samples_ = Append(@, value) ]
        ELSE r

\* ReservoirSampling::process with the draw random_index: the sampler after
\* the call, the value returned, and whether samples_.at threw
\* std::out_of_range (which leaves the call before num_processed_ += 1).
process(s, value, random_index) ==
    LET sample_value == random_index < numToSample(s)
        counted(t) == [ t EXCEPT !.num_processed_ = @ + 1 ]
    IN  IF sample_value
        THEN IF numProcessed(s) >= numToSample(s)
             THEN IF random_index < Len(s.samples_)
                  THEN [ threw   |-> FALSE,
                         ret     |-> sample_value,
                         sampler |-> counted([ s EXCEPT !.samples_[random_index + 1] = value ]) ]
                  ELSE [ threw |-> TRUE, ret |-> FALSE, sampler |-> s ]
             ELSE [ threw   |-> FALSE,
                    ret     |-> sample_value,
                    sampler |-> counted([ s EXCEPT !.samples_ = Append(@, value) ]) ]
        ELSE [ threw |-> FALSE, ret |-> sample_value, sampler |-> counted(s) ]

\* The listing with the header's test numProcessed() >= numToSample(), read
\* after the increment.
process_docs_counted(s, value, random_index) ==
    LET counted == [ s EXCEPT !.num_processed_ = @ + 1 ]
        sample_value == random_index < numToSample(counted)
    IN  IF sample_value
        THEN IF numProcessed(counted) >= numToSample(counted)
             THEN IF random_index < Len(counted.samples_)
                  THEN [ threw   |-> FALSE,
                         ret     |-> sample_value,
                         sampler |-> [ counted EXCEPT !.samples_[random_index + 1] = value ] ]
                  ELSE [ threw |-> TRUE, ret |-> FALSE, sampler |-> counted ]
             ELSE [ threw   |-> FALSE,
                    ret     |-> sample_value,
                    sampler |-> [ counted EXCEPT !.samples_ = Append(@, value) ] ]
        ELSE [ threw |-> FALSE, ret |-> sample_value, sampler |-> counted ]

\* The listing of process in the documentation: num_processed_ += 1 right
\* after the draw, and the overwrite chosen by samples_.size() >= numToSample().
\* A std::out_of_range of samples_.at leaves the call with the count
\* already incremented.
process_docs(s, value, random_index) ==
    LET counted == [ s EXCEPT !.num_processed_ = @ + 1 ]
        sample_value == random_index < numToSample(counted)
    IN  IF sample_value
        THEN IF Len(counted.samples_) >= numToSample(counted)
             THEN IF random_index < Len(counted.samples_)
                  THEN [ threw   |-> FALSE,
                         ret     |-> sample_value,
                         sampler |-> [ counted EXCEPT !.samples_[random_index + 1] = value ] ]
                  ELSE [ threw |-> TRUE, ret |-> FALSE, sampler |-> counted ]
             ELSE [ threw   |-> FALSE,
                    ret     |-> sample_value,
                    sampler |-> [ counted EXCEPT !.samples_ = Append(@, value) ] ]
        ELSE [ threw |-> FALSE, ret |-> sample_value, sampler |-> counted ]

(***************************************************************************)
(* A sampler after a long stream.  num_processed_ is an Index kept at its  *)
(* 64 bits; the int handed to std::uniform_int_distribution<> is its low   *)
(* 32 bits read in two's complement.                                       *)
(***************************************************************************)
\* int(index): the conversion of the second constructor argument.
ToIntOfIndex(x) ==
    IF x[2] >= LimbBase \div 2
    THEN (x[2] - LimbBase) * LimbBase + x[1]
    ELSE x[2] * LimbBase + x[1]

\* x >= y on Index.
IndexGeq(x, y) ==
    \/ x[4] > y[4]
    \/ x[4] = y[4] /\ x[3] > y[3]
    \/ x[4] = y[4] /\ x[3] = y[3] /\ x[2] > y[2]
    \/ x[4] = y[4] /\ x[3] = y[3] /\ x[2] = y[2] /\ x[1] >= y[1]

\* The members of a sampler, with what the last process call did: the
\* count it read, the bound it handed to the distribution, and its result.
LongSampler(num_to_sample, num_processed, values) ==
    [ num_to_sample_ |-> num_to_sample,
      num_processed_ |-> num_processed,
      samples_       |-> values,
      calls          |-> 0,
      at_call        |-> IndexOfInt(0),
      upper          |-> 0,
      ret            |-> FALSE,
      threw          |-> FALSE ]

\* ReservoirSampling::process on the wide count, with the draw random_index.
process_long(s, value, random_index) ==
    LET sample_value == random_index < s.num_to_sample_
        called == [ s EXCEPT !.calls = @ + 1,
                             !.at_call = s.num_processed_,
                             !.upper = ToIntOfIndex(s.num_processed_),
                             !.ret = sample_value,
                             !.threw = FALSE ]
        counted(t) == [ t EXCEPT !.num_processed_ = IndexAdd(@, IndexOfInt(1)) ]
    IN  IF sample_value
        THEN IF IndexGeq(s.num_processed_, IndexOfInt(s.num_to_sample_))
             THEN IF random_index < Len(s.samples_)
                  THEN counted([ called EXCEPT !.samples_[random_index + 1] = value ])
                  ELSE [ called EXCEPT !.ret = FALSE, !.threw = TRUE ]
             ELSE counted([ called EXCEPT !.samples_ = Append(@, value) ])
        ELSE counted(called)

(***************************************************************************)
(* State.                                                                  *)
(***************************************************************************)
VARIABLES
    filters,      \* the two BloomFilter objects filterA and filterB
    recorded,     \* per filter, the values passed to record so far
    ret,          \* the most recent call that changes or builds a filter, and its outcome
    fault,        \* "none", or how the program died on undefined behaviour
    sampler,      \* the ReservoirSampling object
    stream,       \* the values passed to process so far, in arrival order
    outcome,      \* the most recent process call: its draw and what it gave back
    dist_stream,  \* SpecDist: the distinct elements processed so far
    dist,         \* SpecDist: sampler state |-> number of draw sequences leading to it
    made,         \* SpecMake: the arguments of a construction and what it gave back
    long_sampler  \* SpecLong: a sampler whose num_processed_ is kept at its full width

vars == << filters, recorded, ret, fault, sampler, stream, outcome, dist_stream, dist, made, long_sampler >>

FilterIds == { "filterA", "filterB" }

NoFilter == BloomFilter(0, 0)
NoCall == [ op |-> "none", threw |-> FALSE, what |-> "", result |-> NoFilter ]
NoMade == [ op |-> "none", max_num |-> 0, rate |-> << 1, 2 >>, num_to_sample |-> 0,
            threw |-> FALSE, filter |-> NoFilter, sampler |-> ReservoirSampling(0) ]
NoLong == LongSampler(0, IndexOfInt(0), << >>)
NoOutcome == [ called |-> FALSE, threw |-> FALSE, ret |-> FALSE, random_index |-> 0, value |-> 0 ]

(***************************************************************************)
(* BloomFilter calls.  The sampler and the distribution are not part of    *)
(* SpecBloom: they stay one fixed object.                                  *)
(***************************************************************************)

\* Two filters constructed with BloomFilter(num_buckets, num_hashes).
InitBloom ==
    /\ filters \in [ FilterIds ->
                       { BloomFilter(b, h) : b \in 0..MaxBuckets, h \in 0..MaxHashes } ]
    /\ recorded = [ f \in FilterIds |-> {} ]
    /\ ret = NoCall
    /\ fault = "none"
    /\ sampler = ReservoirSampling(0)
    /\ stream = << >>
    /\ outcome = NoOutcome
    /\ dist_stream = << >>
    /\ dist = [ s \in { ReservoirSampling(0) } |-> 1 ]
    /\ made = NoMade
    /\ long_sampler = NoLong

\* filters[f].record(value)
Record(f, value) ==
    /\ fault = "none"
    /\ ProbesDefined(filters[f])
    /\ filters' = [ filters EXCEPT ![f] = record(filters[f], value) ]
    /\ recorded' = [ recorded EXCEPT ![f] = @ \cup { value } ]
    /\ ret' = [ NoCall EXCEPT !.op = "record" ]
    /\ UNCHANGED << fault, sampler, stream, outcome, dist_stream, dist, made, long_sampler >>

\* record or contains on a filter with no buckets and num_hashes_ >= 1:
\* the remainder by buckets_.size() == 0 is undefined.  The builds either trap
\* on the division or go on to index the empty vector; the program dies.
ProbeUndefined(f) ==
    /\ fault = "none"
    /\ ~ProbesDefined(filters[f])
    /\ fault' \in { "SIGFPE", "SIGSEGV" }
    /\ UNCHANGED << filters, recorded, ret, sampler, stream, outcome, dist_stream, dist, made, long_sampler >>

\* BloomFilter::filterUnion(filterA, filterB)
FilterUnion ==
    /\ fault = "none"
    /\ LET r == filterUnion(filters["filterA"], filters["filterB"])
       IN  ret' = [ NoCall EXCEPT !.op = "filterUnion", !.threw = r.threw,
                                  !.what = r.what, !.result = r.result ]
    /\ UNCHANGED << filters, recorded, fault, sampler, stream, outcome, dist_stream, dist, made, long_sampler >>

\* BloomFilter::filterIntersection(filterA, filterB)
FilterIntersection ==
    /\ fault = "none"
    /\ LET r == filterIntersection(filters["filterA"], filters["filterB"])
       IN  ret' = [ NoCall EXCEPT !.op = "filterIntersection", !.threw = r.threw,
                                  !.what = r.what, !.result = r.result ]
    /\ UNCHANGED << filters, recorded, fault, sampler, stream, outcome, dist_stream, dist, made, long_sampler >>

NextBloom ==
    \/ \E f \in FilterIds, value \in Values : Record(f, value)
    \/ \E f \in FilterIds : ProbeUndefined(f)
    \/ FilterUnion
    \/ FilterIntersection

SpecBloom == InitBloom /\ [][NextBloom]_vars

(***************************************************************************)
(* ReservoirSampling calls.                                                *)
(***************************************************************************)
StreamValues == 0..MaxStreamValue

\* A sampler constructed with ReservoirSampling(num_to_sample).
InitSampler ==
    /\ sampler \in { ReservoirSampling(k) : k \in 0..MaxCapacity }
    /\ stream = << >>
    /\ outcome = NoOutcome
    /\ filters = [ f \in FilterIds |-> NoFilter ]
    /\ recorded = [ f \in FilterIds |-> {} ]
    /\ ret = NoCall
    /\ fault = "none"
    /\ dist_stream = << >>
    /\ dist = [ s \in { ReservoirSampling(0) } |-> 1 ]
    /\ made = NoMade
    /\ long_sampler = NoLong

\* sampler.process(value), the generator giving random_index
Process(value, random_index) ==
    /\ numProcessed(sampler) < MaxProcessed
    /\ random_index \in Draws(sampler)
    /\ LET r == process(sampler, value, random_index)
       IN  /\ sampler' = r.sampler
           /\ outcome' = [ called |-> TRUE, threw |-> r.threw, ret |-> r.ret,
                           random_index |-> random_index, value |-> value ]
    /\ stream' = Append(stream, value)
    /\ UNCHANGED << filters, recorded, ret, fault, dist_stream, dist, made, long_sampler >>

NextSampler ==
    \E value \in StreamValues, random_index \in 0..MaxProcessed :
        Process(value, random_index)

SpecSampler == InitSampler /\ [][NextSampler]_vars

(***************************************************************************)
(* The outcome distribution of the sampler.  dist maps every sampler state *)
(* that some sequence of draws leads to, to the number of such sequences.  *)
(* Every call has the same number of equally likely draws in all of them,  *)
(* so the weights are probabilities up to the common total.                *)
(***************************************************************************)
Elements == 1..NumElements

RECURSIVE SumWeights(_, _)
SumWeights(d, states) ==
    IF states = {} THEN 0
    ELSE LET s == CHOOSE t \in states : TRUE
         IN  d[s] + SumWeights(d, states \ { s })

\* process(value) applied to every state of d under every draw.
DistProcess(d, value) ==
    LET runs == { << s, random_index >> : s \in DOMAIN d, random_index \in 0..NumElements }
        valid == { r \in runs : r[2] \in Draws(r[1]) }
        after(r) == process(r[1], value, r[2]).sampler
        from(t) == { r \in valid : after(r) = t }
        weight(rs) == SumWeights([ r \in rs |-> d[r[1]] ], rs)
    IN  [ t \in { after(r) : r \in valid } |-> weight(from(t)) ]

InitDist ==
    /\ dist_stream = << >>
    /\ dist \in { [ s \in { ReservoirSampling(k) } |-> 1 ] : k \in 0..MaxDistCapacity }
    /\ filters = [ f \in FilterIds |-> NoFilter ]
    /\ recorded = [ f \in FilterIds |-> {} ]
    /\ ret = NoCall
    /\ fault = "none"
    /\ sampler = ReservoirSampling(0)
    /\ stream = << >>
    /\ outcome = NoOutcome
    /\ made = NoMade
    /\ long_sampler = NoLong

\* process(value) on a stream of distinct elements, all draws at once
ProcessAll(value) ==
    /\ Len(dist_stream) < NumElements
    /\ \A i \in 1..Len(dist_stream) : dist_stream[i] # value
    /\ dist' = DistProcess(dist, value)
    /\ dist_stream' = Append(dist_stream, value)
    /\ UNCHANGED << filters, recorded, ret, fault, sampler, stream, outcome, made, long_sampler >>

NextDist == \E value \in Elements : ProcessAll(value)

SpecDist == InitDist /\ [][NextDist]_vars

(***************************************************************************)
(* Construction.  The arguments are drawn first; one call then constructs  *)
(* a filter with make or a sampler with the constructor.  Neither has a    *)
(* throw statement.                                                        *)
(***************************************************************************)
Rates ==
    { << 1, 2 ^ e >> : e \in 0..MaxRateExp }
        \cup { << 1, 100 >>, << 1, 10 >>, << 1, 3 >>, << 3, 4 >>, << 3, 2 >> }

\* make(300, 0.01) of TEST(BloomFilter, make), and small element counts.
MakeInputs ==
    { << m, r >> : m \in 0..MaxElements, r \in Rates } \cup { << 300, << 1, 100 >> >> }

InitMake ==
    /\ \E in \in MakeInputs, k \in 0..MaxCapacity :
          made = [ NoMade EXCEPT !.max_num = in[1], !.rate = in[2], !.num_to_sample = k ]
    /\ filters = [ f \in FilterIds |-> NoFilter ]
    /\ recorded = [ f \in FilterIds |-> {} ]
    /\ ret = NoCall
    /\ fault = "none"
    /\ sampler = ReservoirSampling(0)
    /\ stream = << >>
    /\ outcome = NoOutcome
    /\ dist_stream = << >>
    /\ dist = [ s \in { ReservoirSampling(0) } |-> 1 ]
    /\ long_sampler = NoLong

\* BloomFilter::make(max_num, false_positive_error)
Make ==
    /\ made.op = "none"
    /\ made' = [ made EXCEPT !.op = "make", !.filter = make(made.max_num, made.rate) ]
    /\ UNCHANGED << filters, recorded, ret, fault, sampler, stream, outcome, dist_stream, dist, long_sampler >>

\* ReservoirSampling(num_to_sample)
NewSampler ==
    /\ made.op = "none"
    /\ made' = [ made EXCEPT !.op = "ReservoirSampling",
                             !.sampler = ReservoirSampling(made.num_to_sample) ]
    /\ UNCHANGED << filters, recorded, ret, fault, sampler, stream, outcome, dist_stream, dist, long_sampler >>

NextMake == Make \/ NewSampler

SpecMake == InitMake /\ [][NextMake]_vars

(***************************************************************************)
(* Long streams.  The sampler has processed few values, or nearly 2^31 of  *)
(* them, where the conversion of numProcessed() to int turns negative; a   *)
(* stream of that length brings it there one process call at a time.       *)
(***************************************************************************)
\* 2^31 - MaxStart: the count MaxStart calls before the bound turns negative.
LongBases ==
    { << 0, 0, 0, 0 >>,
      << LimbBase - MaxStart, LimbBase \div 2 - 1, 0, 0 >> }

\* The counts 0 .. MaxStart and 2^31 - MaxStart .. 2^31.  A count above 2^31
\* is never reached: the call at 2^31 dies.
LongCounts == { IndexAdd(b, IndexOfInt(d)) : b \in LongBases, d \in 0..MaxStart }

\* The reservoir holds min(numProcessed(), numToSample()) values of the stream.
LongSamples(num_processed) ==
    { values \in UNION { [ 1..n -> StreamValues ] : n \in 0..LongCapacity } :
        /\ IndexGeq(num_processed, IndexOfInt(Len(values)))
        /\ Len(values) < LongCapacity => num_processed = IndexOfInt(Len(values)) }

InitLong ==
    /\ \E n \in LongCounts : \E values \in LongSamples(n) :
          long_sampler = LongSampler(LongCapacity, n, values)
    /\ filters = [ f \in FilterIds |-> NoFilter ]
    /\ recorded = [ f \in FilterIds |-> {} ]
    /\ ret = NoCall
    /\ fault = "none"
    /\ sampler = ReservoirSampling(0)
    /\ stream = << >>
    /\ outcome = NoOutcome
    /\ dist_stream = << >>
    /\ dist = [ s \in { ReservoirSampling(0) } |-> 1 ]
    /\ made = NoMade

\* long_sampler.process(value) with a bound that is not negative.  A draw
\* of numToSample() stands for every draw that rejects the value.
LongProcess(value, random_index) ==
    /\ fault = "none"
    /\ long_sampler.calls < MaxLongCalls
    /\ ToIntOfIndex(long_sampler.num_processed_) >= 0
    /\ random_index <= ToIntOfIndex(long_sampler.num_processed_)
    /\ long_sampler' = process_long(long_sampler, value, random_index)
    /\ UNCHANGED << filters, recorded, ret, fault, sampler, stream, outcome, dist_stream, dist, made >>

\* long_sampler.process(value) with a negative bound: the distribution is
\* constructed with b < a, which is undefined.  The build dies in the draw,
\* or at the assertion of the parameters when the library checks them.
LongProcessUndefined ==
    /\ fault = "none"
    /\ long_sampler.calls < MaxLongCalls
    /\ ToIntOfIndex(long_sampler.num_processed_) < 0
    /\ fault' \in { "SIGSEGV", "SIGABRT" }
    /\ long_sampler' = [ long_sampler EXCEPT !.calls = @ + 1,
                                             !.at_call = long_sampler.num_processed_,
                                             !.upper = ToIntOfIndex(long_sampler.num_processed_) ]
    /\ UNCHANGED << filters, recorded, ret, sampler, stream, outcome, dist_stream, dist, made >>

NextLong ==
    \/ \E value \in StreamValues, random_index \in 0..LongCapacity :
          LongProcess(value, random_index)
    \/ LongProcessUndefined

SpecLong == InitLong /\ [][NextLong]_vars

(***************************************************************************)
(* Properties.                                                             *)
(***************************************************************************)
Min(a, b) == IF a < b THEN a ELSE b
filterA == filters["filterA"]
filterB == filters["filterB"]
SameShape(lhs, rhs) ==
    numHashes(lhs) = numHashes(rhs) /\ numBuckets(lhs) = numBuckets(rhs)

\* C1: no false negatives.  In every state, for every filter with at least
\* one bucket, every value that was recorded into it is contained in it; the
\* states right after the record and after any further records are all covered.
C1_NoFalseNegatives ==
    \A f \in FilterIds :
        numBuckets(filters[f]) >= 1 =>
            \A v \in recorded[f] : contains(filters[f], v)

\* A filter probed twice per value holds two recorded values, and still
\* rejects a value that was never recorded.
C1_Witness ==
    \E f \in FilterIds :
        /\ numBuckets(filters[f]) >= 2
        /\ numHashes(filters[f]) >= 2
        /\ Cardinality(recorded[f]) >= 2
        /\ \E x \in Values \ recorded[f] : ~contains(filters[f], x)

\* C2: the reservoir holds min(numProcessed(), numToSample()) values after
\* every sequence of process calls.
C2_SizeInvariant ==
    Len(samples(sampler)) = Min(numProcessed(sampler), numToSample(sampler))

\* More values than the capacity were processed, the last one was accepted
\* into a full reservoir.
C2_Witness ==
    /\ numToSample(sampler) >= 2
    /\ numProcessed(sampler) >= numToSample(sampler) + 2
    /\ outcome.called /\ outcome.ret
    /\ Len(samples(sampler)) = numToSample(sampler)

\* C4: while no more than numToSample() values were processed, every call
\* returned true and appended: samples() is the stream so far, in arrival
\* order, and numProcessed() is its length, whatever the draws were.
C4_FillPhase ==
    Len(stream) <= numToSample(sampler) =>
        /\ samples(sampler) = stream
        /\ numProcessed(sampler) = Len(stream)
        /\ outcome.called => (outcome.ret /\ ~outcome.threw)

\* The reservoir has just been filled to a capacity of at least 2 and the
\* last draw was not 0.
C4_Witness ==
    /\ numToSample(sampler) >= 2
    /\ numProcessed(sampler) = numToSample(sampler)
    /\ outcome.called /\ outcome.random_index >= 1
    /\ samples(sampler) = stream

\* C5: numProcessed() starts at 0, every process call adds exactly one to it
\* whether or not the value was accepted, so that it is the number of calls
\* made; numToSample() never changes.
C5_Counting ==
    /\ numProcessed(sampler) = 0
    /\ [](numProcessed(sampler) = Len(stream))
    /\ [][ /\ numProcessed(sampler') = numProcessed(sampler) + 1
           /\ numToSample(sampler') = numToSample(sampler) ]_vars

\* A call has just rejected its value, and was counted.
C5_Witness ==
    /\ outcome.called /\ ~outcome.ret /\ ~outcome.threw
    /\ numToSample(sampler) >= 1
    /\ numProcessed(sampler) = Len(stream)
    /\ numProcessed(sampler) >= numToSample(sampler) + 2

\* C6: across every step, each filter keeps its number of buckets and its
\* number of hashes, and a bucket that is true stays true.
C6_BucketsMonotonic ==
    [][ \A f \in FilterIds :
          /\ numBuckets(filters'[f]) = numBuckets(filters[f])
          /\ numHashes(filters'[f]) = numHashes(filters[f])
          /\ \A i \in 1..numBuckets(filters[f]) :
                filters[f].buckets_[i] => filters'[f].buckets_[i] ]_vars

\* A record has just run on a filter that already held another value, and
\* it left a bucket false.
C6_Witness ==
    /\ ret.op = "record"
    /\ \E f \in FilterIds :
          /\ Cardinality(recorded[f]) >= 2
          /\ numBucketsPopulated(filters[f]) >= 2
          /\ numBucketsPopulated(filters[f]) < numBuckets(filters[f])

CombineOps == { "filterUnion", "filterIntersection" }

\* C7: filterUnion and filterIntersection throw exactly when the two filters
\* differ in numHashes or in numBuckets; a call that throws hands back no
\* filter, and a call, throwing or not, leaves both filters as they were.
C7_MismatchRejected ==
    /\ [](ret.op \in CombineOps =>
            /\ ret.threw <=> ~SameShape(filterA, filterB)
            /\ ret.threw => (ret.what # "" /\ ret.result = NoFilter))
    /\ [][ret'.op \in CombineOps => filters' = filters]_vars

\* filterIntersection has just thrown on two populated filters that agree in
\* numHashes and differ in numBuckets.
C7_Witness ==
    /\ ret.op = "filterIntersection" /\ ret.threw
    /\ numHashes(filterA) = numHashes(filterB)
    /\ numBuckets(filterA) # numBuckets(filterB)
    /\ numBucketsPopulated(filterA) >= 1
    /\ numBucketsPopulated(filterB) >= 1

\* C8: on filters of equal shape filterUnion and filterIntersection return a
\* filter of that shape whose bucket i is the OR, respectively the AND, of
\* the two inputs' buckets i.
C8_BucketwiseResult ==
    (ret.op \in CombineOps /\ SameShape(filterA, filterB)) =>
        /\ ~ret.threw
        /\ SameShape(ret.result, filterA)
        /\ \A i \in 1..numBuckets(filterA) :
              ret.result.buckets_[i] =
                 IF ret.op = "filterUnion"
                 THEN filterA.buckets_[i] \/ filterB.buckets_[i]
                 ELSE filterA.buckets_[i] /\ filterB.buckets_[i]

\* filterIntersection has just returned a filter with a bucket that is true
\* in both inputs and a bucket that is true in filterA only.
C8_Witness ==
    /\ ret.op = "filterIntersection" /\ ~ret.threw
    /\ \E i, j \in 1..numBuckets(filterA) :
          /\ filterA.buckets_[i] /\ filterB.buckets_[i] /\ ret.result.buckets_[i]
          /\ filterA.buckets_[j] /\ ~filterB.buckets_[j] /\ ~ret.result.buckets_[j]

\* C9: the union of two filters of equal shape contains every value that
\* either input contains, hence every value recorded into either.
C9_UnionContains ==
    (ret.op = "filterUnion" /\ SameShape(filterA, filterB) /\ ProbesDefined(filterA)) =>
        /\ ~ret.threw
        /\ \A x \in Values :
              (contains(filterA, x) \/ contains(filterB, x)) => contains(ret.result, x)
        /\ numBuckets(filterA) >= 1 =>
              \A v \in recorded["filterA"] \cup recorded["filterB"] :
                 contains(ret.result, v)

\* The union has just been built from two filters with different recorded
\* values: it contains a value that filterB rejects, and rejects another value.
C9_Witness ==
    /\ ret.op = "filterUnion" /\ ~ret.threw
    /\ numHashes(filterA) >= 2
    /\ recorded["filterA"] # {} /\ recorded["filterB"] # {}
    /\ \E x \in recorded["filterA"] :
          ~contains(filterB, x) /\ contains(ret.result, x)
    /\ \E y \in Values : ~contains(ret.result, y)

\* C10: the intersection of two filters of equal shape contains a value
\* exactly when both inputs contain it.
C10_IntersectionContains ==
    (ret.op = "filterIntersection" /\ SameShape(filterA, filterB) /\ ProbesDefined(filterA)) =>
        /\ ~ret.threw
        /\ \A x \in Values :
              contains(ret.result, x) <=> (contains(filterA, x) /\ contains(filterB, x))

\* The intersection has just been built: it contains a value recorded into
\* both filters and rejects a value that only filterA contains.
C10_Witness ==
    /\ ret.op = "filterIntersection" /\ ~ret.threw
    /\ numHashes(filterA) >= 2
    /\ \E x \in recorded["filterA"] \cap recorded["filterB"] : contains(ret.result, x)
    /\ \E y \in Values :
          contains(filterA, y) /\ ~contains(filterB, y) /\ ~contains(ret.result, y)

(***************************************************************************)
(* Properties of the outcome distribution.                                 *)
(***************************************************************************)
\* C11: for two filters of equal shape, filterUnion gives equal filters for
\* both orders of its arguments, and so does filterIntersection; neither call
\* throws, and the filter a call has just returned is the one the swapped
\* call returns.
C11_Commutative ==
    SameShape(filterA, filterB) =>
        /\ ~filterUnion(filterA, filterB).threw
        /\ ~filterUnion(filterB, filterA).threw
        /\ operator_eq(filterUnion(filterA, filterB).result,
                       filterUnion(filterB, filterA).result)
        /\ ~filterIntersection(filterA, filterB).threw
        /\ ~filterIntersection(filterB, filterA).threw
        /\ operator_eq(filterIntersection(filterA, filterB).result,
                       filterIntersection(filterB, filterA).result)
        /\ ret.op = "filterUnion" =>
              operator_eq(ret.result, filterUnion(filterB, filterA).result)
        /\ ret.op = "filterIntersection" =>
              operator_eq(ret.result, filterIntersection(filterB, filterA).result)

\* filterUnion has just returned for two filters of equal shape, each with
\* a bucket set that the other has not.
C11_Witness ==
    /\ ret.op = "filterUnion" /\ ~ret.threw
    /\ SameShape(filterA, filterB)
    /\ \E i \in 1..numBuckets(filterA) : filterA.buckets_[i] /\ ~filterB.buckets_[i]
    /\ \E i \in 1..numBuckets(filterA) : filterB.buckets_[i] /\ ~filterA.buckets_[i]

\* The filters of a state: the two filters and the last returned result.
StateFilters == { filterA, filterB, ret.result }

\* Filters that make gives within the shapes of the state space.
MadeFilters ==
    { make(1, << 1, 2 >>), make(2, << 1, 2 >>), make(1, << 1, 4 >>), make(1, << 1, 3 >>) }

\* C12: two filters are equal under operator== exactly when their numHashes
\* agree, their bucket sequences have one length and agree bucket by bucket;
\* operator== is reflexive and symmetric, and an untouched filter of the
\* constructor is equal to the filter of the same shape from make.
C12_Equality ==
    /\ \A x \in StateFilters, y \in StateFilters :
          /\ operator_eq(x, y) <=>
                /\ numHashes(x) = numHashes(y)
                /\ Len(x.buckets_) = Len(y.buckets_)
                /\ \A i \in 1..Min(Len(x.buckets_), Len(y.buckets_)) :
                      x.buckets_[i] = y.buckets_[i]
          /\ operator_eq(x, x)
          /\ operator_eq(x, y) <=> operator_eq(y, x)
    /\ \A x \in StateFilters, m \in MadeFilters :
          SameShape(x, m) /\ numBucketsPopulated(x) = 0 => operator_eq(x, m)

\* Two filters with the same populated buckets that differ in numHashes
\* only, and are not equal.
C12_Witness ==
    /\ numHashes(filterA) # numHashes(filterB)
    /\ numBuckets(filterA) = numBuckets(filterB)
    /\ filterA.buckets_ = filterB.buckets_
    /\ numBucketsPopulated(filterA) >= 1
    /\ ~operator_eq(filterA, filterB)

\* C13: two filters of one shape into which the same values were recorded
\* are equal, whatever the order and the number of the records on each side;
\* with no record at all these are two freshly constructed filters.
C13_OrderIndependent ==
    SameShape(filterA, filterB) /\ recorded["filterA"] = recorded["filterB"] =>
        operator_eq(filterA, filterB)

\* Both filters of one shape hold the same three values, with more than one
\* bucket set and one still clear.
C13_Witness ==
    /\ ret.op = "record"
    /\ SameShape(filterA, filterB)
    /\ recorded["filterA"] = recorded["filterB"]
    /\ Cardinality(recorded["filterA"]) >= 3
    /\ numBucketsPopulated(filterA) >= 2
    /\ numBucketsPopulated(filterA) < numBuckets(filterA)

OtherFilter(f) == IF f = "filterA" THEN "filterB" ELSE "filterA"

\* C14 as stated: a record into one of two equal filters, of a value that was
\* never recorded into the other, leaves the two filters unequal.
C14_DifferingValueBreaks ==
    [][ \A f \in FilterIds, v \in Values :
          /\ Record(f, v)
          /\ operator_eq(filterA, filterB)
          /\ v \notin recorded[OtherFilter(f)]
          => ~operator_eq(filters'["filterA"], filters'["filterB"]) ]_vars

\* C14: a record into one of two equal filters, of a value that was never
\* recorded into the other, leaves the two filters unequal exactly when the
\* filter did not contain the value before the record; when it did (every
\* probed bucket was set already, or numHashes is 0) they stay equal.
C14_BreaksUnlessContained ==
    [][ \A f \in FilterIds, v \in Values :
          /\ Record(f, v)
          /\ operator_eq(filterA, filterB)
          /\ v \notin recorded[OtherFilter(f)]
          => (operator_eq(filters'["filterA"], filters'["filterB"])
                <=> contains(filters[f], v)) ]_vars

\* A record has just made two filters of one shape unequal: one holds a
\* value the other never saw, and a bucket the other has clear.
C14_Witness ==
    /\ ret.op = "record"
    /\ SameShape(filterA, filterB)
    /\ numHashes(filterA) >= 1
    /\ Cardinality(recorded["filterA"]) = Cardinality(recorded["filterB"]) + 1
    /\ recorded["filterB"] \subseteq recorded["filterA"]
    /\ Cardinality(recorded["filterB"]) >= 1
    /\ ~operator_eq(filterA, filterB)

\* The rate p / q lies strictly between 0 and 1.
RateInUnitInterval(rate) == 0 < rate[1] /\ rate[1] < rate[2]

\* C15: make(maxElements, rate) with 0 < rate < 1 returns a filter with
\* numHashes = ceil(log2(1 / rate)) and numBuckets = ceil(maxElements *
\* numHashes / ln 2), all buckets false; make(300, 0.01) has 7 hashes and
\* 3030 buckets.
C15_MakeSizing ==
    made.op = "make" /\ RateInUnitInterval(made.rate) =>
        LET k == CeilLog2(made.rate[1], made.rate[2])
        IN  /\ numHashes(made.filter) = k
            /\ numBuckets(made.filter)
                  = CeilOverLn2(made.max_num * k)
            /\ numBucketsPopulated(made.filter) = 0
            /\ made.max_num = 300 /\ made.rate = << 1, 100 >> =>
                  numHashes(made.filter) = 7 /\ numBuckets(made.filter) = 3030

\* C17: a sampler constructed with capacity 0, and a make with maxElements 0
\* or with a rate outside (0, 1), end in an error and give no instance.
C17_InvalidRejected ==
    /\ made.op = "make" /\ (made.max_num = 0 \/ ~RateInUnitInterval(made.rate))
          => made.threw
    /\ made.op = "ReservoirSampling" /\ made.num_to_sample = 0
          => made.threw

\* The filter after record(v) for every v of values, one after the other.
RECURSIVE RecordAll(_, _)
RecordAll(filter, values) ==
    IF values = {} THEN filter
    ELSE LET v == CHOOSE x \in values : TRUE
         IN  RecordAll(record(filter, v), values \ { v })

\* C16: for two filters of one shape, filterUnion gives a filter equal to a
\* fresh filter of that shape into which every value recorded into either of
\* them was recorded, and both answer contains alike for every value.
C16_UnionIsCombinedInsertion ==
    SameShape(filterA, filterB) =>
        LET fresh == BloomFilter(numBuckets(filterA), numHashes(filterA))
            combined == RecordAll(fresh, recorded["filterA"] \cup recorded["filterB"])
            union == filterUnion(filterA, filterB)
        IN  /\ ~union.threw
            /\ operator_eq(union.result, combined)
            /\ ProbesDefined(filterA) =>
                  \A v \in Values : contains(union.result, v) <=> contains(combined, v)
            /\ ret.op = "filterUnion" => operator_eq(ret.result, combined)

\* filterUnion has just returned for two filters that hold different
\* values: the result has more buckets set than either, and one still clear.
C16_Witness ==
    /\ ret.op = "filterUnion" /\ ~ret.threw
    /\ recorded["filterA"] # {} /\ recorded["filterB"] # {}
    /\ recorded["filterA"] \cap recorded["filterB"] = {}
    /\ numBucketsPopulated(ret.result) > numBucketsPopulated(filterA)
    /\ numBucketsPopulated(ret.result) > numBucketsPopulated(filterB)
    /\ numBucketsPopulated(ret.result) < numBuckets(ret.result)

\* The bucket indices record(value) probes in filter.
Probes(filter, value) ==
    { nth_hash(hash(value), n, numBuckets(filter)) : n \in 0..(numHashes(filter) - 1) }

\* C18: a record(value) into a filter sets the buckets at the indices
\* (hash_a + n * hash_b) mod numBuckets, n = 0 .. numHashes - 1, and leaves
\* every other bucket, the shape and the other filter as they were; the
\* number of populated buckets does not fall and grows by at most numHashes,
\* and by at least 1 in an empty filter with numHashes >= 1.
C18_RecordFrame ==
    [][ \A f \in FilterIds, v \in Values :
          Record(f, v) =>
            LET old == filters[f]
                new == filters'[f]
            IN  /\ numBuckets(new) = numBuckets(old)
                /\ numHashes(new) = numHashes(old)
                /\ \A i \in 1..numBuckets(old) :
                      new.buckets_[i] <=> (old.buckets_[i] \/ (i - 1) \in Probes(old, v))
                /\ filters'[OtherFilter(f)] = filters[OtherFilter(f)]
                /\ numBucketsPopulated(new) >= numBucketsPopulated(old)
                /\ numBucketsPopulated(new) <= numBucketsPopulated(old) + numHashes(old)
                /\ numBucketsPopulated(old) = 0 /\ numHashes(old) >= 1 =>
                      numBucketsPopulated(new) >= 1 ]_vars

\* A record has just run on a filter with two hashes that holds two values:
\* some buckets are set and one is still clear.
C18_Witness ==
    /\ ret.op = "record"
    /\ \E f \in FilterIds :
          /\ numHashes(filters[f]) = 2
          /\ Cardinality(recorded[f]) = 2
          /\ numBucketsPopulated(filters[f]) = 2
          /\ numBuckets(filters[f]) = 3

\* C19: before every call the draws are 0 .. n, n the number of values
\* processed so far; the draws that make process return true are all n + 1
\* of them when n < numToSample() and numToSample() of them otherwise; a call
\* returns true exactly when its draw is below numToSample(), and
\* numProcessed() is one more after the call.
C19_DrawBeforeIncrement ==
    /\ [](LET n == Len(stream)
              accepting == { j \in Draws(sampler) : process(sampler, 0, j).ret }
          IN  /\ Draws(sampler) = 0..n
              /\ Cardinality(accepting)
                    = IF n < numToSample(sampler) THEN n + 1 ELSE numToSample(sampler))
    /\ [][ /\ outcome'.called
           /\ outcome'.random_index \in 0..Len(stream)
           /\ outcome'.ret <=> outcome'.random_index < numToSample(sampler)
           /\ numProcessed(sampler') = numProcessed(sampler) + 1 ]_vars

\* The largest draw n was taken on a full reservoir of at least two slots,
\* and the value was rejected.
C19_Witness ==
    /\ outcome.called /\ ~outcome.ret
    /\ outcome.random_index = Len(stream) - 1
    /\ numToSample(sampler) >= 2
    /\ Len(stream) >= numToSample(sampler) + 2

\* C20: a call that returns false leaves samples() as it was; a call that
\* returns true on a full reservoir puts the value in the slot of the draw and
\* leaves every other slot; a call that returns true on a reservoir that is
\* not full appends the value; a call whose draw is below numToSample()
\* returns true.
C20_ProcessEffect ==
    [][ LET j == outcome'.random_index
            old == samples(sampler)
            new == samples(sampler')
        IN  /\ ~outcome'.threw
            /\ outcome'.ret <=> j < numToSample(sampler)
            /\ ~outcome'.ret => new = old
            /\ outcome'.ret /\ Len(old) >= numToSample(sampler) =>
                  /\ j + 1 \in 1..Len(old)
                  /\ Len(new) = Len(old)
                  /\ new[j + 1] = outcome'.value
                  /\ \A i \in 1..Len(old) : i # j + 1 => new[i] = old[i]
            /\ outcome'.ret /\ Len(old) < numToSample(sampler) =>
                  new = Append(old, outcome'.value) ]_vars

\* A call on a full reservoir has just put its value into the second slot,
\* next to a first slot that holds the other value.
C20_Witness ==
    /\ outcome.called /\ outcome.ret
    /\ Len(stream) > numToSample(sampler)
    /\ numToSample(sampler) >= 2
    /\ outcome.random_index = 1
    /\ samples(sampler)[2] = outcome.value
    /\ samples(sampler)[1] # outcome.value

\* The halves of a 64-bit hash: its high 32 bits (hash >> 32), its low 32
\* bits as a value, and its low 32 bits moved to the top (hash << 32).
HighHalf(x) == << x[3], x[4], 0, 0 >>
LowHalf(x) == << x[1], x[2], 0, 0 >>
LowHalfShifted(x) == << 0, 0, x[1], x[2] >>

\* C21: the two base hash values of every recorded value are the high half
\* and the low half of its 64-bit hash, split at bit 32.
C21_HalfWidthSplit ==
    \A f \in FilterIds : \A v \in recorded[f] :
        LET h == hash(v)
            x == Hash(v)
        IN  \/ { h.hash_a, h.hash_b } = { HighHalf(x), LowHalf(x) }
            \/ { h.hash_a, h.hash_b } = { HighHalf(x), LowHalfShifted(x) }

\* C22: recording a value again into a filter that already had it recorded
\* leaves the filter as it is: the same buckets, the same number of populated
\* buckets, the same answer of contains for every value and the same
\* equality with every filter; a record step of such a value changes no filter.
C22_RecordIdempotent ==
    /\ [](\A f \in FilterIds : \A v \in recorded[f] :
            LET again == record(filters[f], v)
            IN  /\ again.buckets_ = filters[f].buckets_
                /\ numBucketsPopulated(again) = numBucketsPopulated(filters[f])
                /\ \A x \in Values : contains(again, x) <=> contains(filters[f], x)
                /\ \A g \in FilterIds :
                      operator_eq(again, filters[g]) <=> operator_eq(filters[f], filters[g]))
    /\ [][ \A f \in FilterIds, v \in Values :
             Record(f, v) /\ v \in recorded[f] => filters' = filters ]_vars

\* A record has just run on two equal filters with two hashes that hold the
\* same two values and have a bucket still clear.
C22_Witness ==
    /\ ret.op = "record"
    /\ numHashes(filterA) = 2
    /\ Cardinality(recorded["filterA"]) = 2
    /\ recorded["filterA"] = recorded["filterB"]
    /\ operator_eq(filterA, filterB)
    /\ numBucketsPopulated(filterA) \in 1..(numBuckets(filterA) - 1)

\* C23: in every process call the bound handed to the distribution is
\* numProcessed(): it is not negative and, read back as an Index, it is the
\* count the call read; and the call returns.
C23_BoundIsCount ==
    /\ fault = "none"
    /\ long_sampler.calls >= 1 =>
          /\ long_sampler.upper >= 0
          /\ IndexOfInt(long_sampler.upper) = long_sampler.at_call

\* C24: no process call has thrown, and in every state, for every value and
\* every draw, the next call does not throw: when it overwrites a slot the
\* draw is below samples().size().
C24_NoOutOfRange ==
    /\ ~outcome.threw
    /\ \A v \in StreamValues, j \in Draws(sampler) :
          LET r == process(sampler, v, j)
          IN  /\ ~r.threw
              /\ r.ret /\ numProcessed(sampler) >= numToSample(sampler) =>
                    j < Len(samples(sampler))

\* A call on a full reservoir has just overwritten the last slot.
C24_Witness ==
    /\ outcome.called /\ outcome.ret
    /\ numToSample(sampler) >= 2
    /\ Len(stream) >= numToSample(sampler) + 2
    /\ outcome.random_index = numToSample(sampler) - 1
    /\ Len(samples(sampler)) = numToSample(sampler)

\* C26: in every state, for every value and every draw, the listing of the
\* documentation and the header give the same return value, the same
\* samples() and the same numProcessed(); and every call that was made left
\* the sampler the listing leaves.
C26_ListingsAgree ==
    /\ [](\A v \in StreamValues, j \in Draws(sampler) :
            LET doc == process_docs(sampler, v, j)
                hdr == process(sampler, v, j)
            IN  /\ doc.threw = hdr.threw
                /\ doc.ret = hdr.ret
                /\ samples(doc.sampler) = samples(hdr.sampler)
                /\ numProcessed(doc.sampler) = numProcessed(hdr.sampler))
    /\ [][ LET doc == process_docs(sampler, outcome'.value, outcome'.random_index)
           IN  /\ sampler' = doc.sampler
               /\ outcome'.ret = doc.ret
               /\ outcome'.threw = doc.threw ]_vars

\* The call that filled a reservoir of at least two slots has just
\* returned: the value was appended on the largest draw.
C26_Witness ==
    /\ outcome.called /\ outcome.ret
    /\ numToSample(sampler) >= 2
    /\ Len(stream) = numToSample(sampler)
    /\ outcome.random_index = numToSample(sampler) - 1
    /\ Len(samples(sampler)) = numToSample(sampler)

DistCapacity == numToSample(CHOOSE s \in DOMAIN dist : TRUE)
Seen == { dist_stream[i] : i \in 1..Len(dist_stream) }
Retained(s) == { s.samples_[i] : i \in 1..Len(s.samples_) }
Total == SumWeights(dist, DOMAIN dist)
InclusionWeight(e) == SumWeights(dist, { s \in DOMAIN dist : e \in Retained(s) })
SubsetWeight(S) == SumWeights(dist, { s \in DOMAIN dist : Retained(s) = S })

\* C25: over a stream of distinct values, under every sequence of draws,
\* every slot of the reservoir holds a value that was processed, and no
\* value is in two slots.
C25_WithoutReplacement ==
    \A s \in DOMAIN dist :
        /\ Retained(s) \subseteq Seen
        /\ \A i, j \in 1..Len(samples(s)) :
              samples(s)[i] = samples(s)[j] => i = j

\* After two more elements than the capacity of 2, one reservoir holds the
\* last two elements only: both slots were overwritten.
C25_Witness ==
    /\ DistCapacity = 2
    /\ Len(dist_stream) = 4
    /\ \E s \in DOMAIN dist :
          /\ dist[s] > 0
          /\ Retained(s) = { dist_stream[3], dist_stream[4] }

RECURSIVE Factorial(_)
Factorial(n) == IF n = 0 THEN 1 ELSE n * Factorial(n - 1)

\* C3: after N > capacity distinct elements, over the N! equally weighted
\* draw sequences, every element is retained in the fraction capacity / N of
\* them, and every subset of capacity elements is the retained set in the
\* same number of them.
C3_Uniformity ==
    LET N == Len(dist_stream)
        k == DistCapacity
    IN  N > k =>
          /\ Total = Factorial(N)
          /\ \A s \in DOMAIN dist : numProcessed(s) = N /\ Cardinality(Retained(s)) = k
          /\ \A e \in Seen : InclusionWeight(e) * N = k * Total
          /\ \A S, T \in SUBSET Seen :
                (Cardinality(S) = k /\ Cardinality(T) = k) => SubsetWeight(S) = SubsetWeight(T)

\* Two more elements than the capacity of 2 were processed, and the
\* distribution has spread over several reservoirs.
C3_Witness ==
    /\ DistCapacity >= 2
    /\ Len(dist_stream) >= DistCapacity + 2
    /\ Cardinality(DOMAIN dist) >= 6
    /\ \E e \in Seen : InclusionWeight(e) > 0 /\ InclusionWeight(e) < Total

====
